---- MODULE Spec2Model ----
(***************************************************************************)
(* Account lifecycle of the account service (src/src/index.js):            *)
(* referral-gated signup, receipt-checked wallet binding and reset, email  *)
(* confirmation and resend.  The storage, email, captcha and notification  *)
(* collaborators are injected objects; their effect on the stored tables   *)
(* is modelled from their contract.                                        *)
(***************************************************************************)
EXTENDS Integers, Sequences, FiniteSets, TLC

VARIABLES
    now,        \* Date.now(), in milliseconds
    accounts,   \* account table: id -> row
    refs,       \* referral table: code -> [account, allowance]
    proxies,    \* proxy pool: set of available addresses
    mail,       \* receipts delivered by sendConfirm / sendReset
    last,       \* the last completed call: operation, arguments, outcome
    issued,     \* per referral code: allowance when the code was put
    signups,    \* per referral code: successful signups since it was put
    faulted,    \* some collaborator call has failed in this run
    calls,      \* concurrent addAccount calls: position and locals
    config      \* this.slackAlert is set, this.minProxiesAlertThreshold

vars ==
    <<now, accounts, refs, proxies, mail, last, issued, signups, faulted, calls, config>>

----------------------------------------------------------------------------
\* Bounds of the model.

\* times the clock may advance in a run
MaxTicks == 1
\* largest allowance a referral code starts with
MaxAllowance == 2
\* addAccount calls in flight at once
MaxCalls == 2
\* receipts are created up to this many seconds around each cutoff
Skew == 1

----------------------------------------------------------------------------
\* Program constants.

\* 60 * 60, seconds per hour (checkSession)
SecondsPerHour == 3600
\* Date.now() / 1000: milliseconds per second
MsPerSecond == 1000
\* timeoutHours passed by setWallet, resetWallet, confirmEmail
SessionTimeoutHours == 2
\* timeoutHours passed by resendEmail
ResendTimeoutHours == -2
\* allowance of the referral code issued by setWallet
NewRefAllowance == 3

HourMs == SecondsPerHour * MsPerSecond

\* this.slackAlert is configured; this.minProxiesAlertThreshold
AlertConfigured == TRUE
MinProxiesAlertThreshold == 2

\* the alert settings passed to the constructor
Config(slackAlert, minProxiesAlertThreshold) ==
    [slackAlert |-> slackAlert, minProxiesAlertThreshold |-> minProxiesAlertThreshold]
DefaultConfig == Config(AlertConfigured, MinProxiesAlertThreshold)

\* Type.CREATE_CONF, Type.RESET_CONF and another receipt type of poker-helper
CREATE_CONF == "CREATE_CONF"
RESET_CONF == "RESET_CONF"
UNLOCK_REQ == "UNLOCK_REQ"
Types == {CREATE_CONF, RESET_CONF, UNLOCK_REQ}

\* this.sessionAddr, and the address of any other key
SessionAddr == "0xsession"
OtherAddr == "0xother"
Signers == {SessionAddr, OtherAddr}

\* a string Receipt.parse rejects
Garbage == "garbage"

----------------------------------------------------------------------------
\* Identifiers.  A value stands for a string; the regular expressions of the
\* source are modelled by the class of strings they accept.

\* account ids: two UUID v4 strings and one string that is no UUID
UuidIds == {"uuid-1", "uuid-2"}
BadId == "not-a-uuid"
Ids == UuidIds \cup {BadId}

\* a UUID that referral codes are bound to before any signup
RootAccount == "uuid-0"

uuidRegex(s) == s \in UuidIds \cup {RootAccount}

\* emails: valid ones (two differing only in letter case) and a malformed one
ValidEmails == {"a@b.com", "A@b.com", "c@d.com"}
BadEmail == "not-an-email"
Emails == ValidEmails \cup {BadEmail}

emailRegex(s) == s \in ValidEmails

\* String.prototype.toLowerCase on the emails above
toLowerCase(s) == IF s = "A@b.com" THEN "a@b.com" ELSE s

\* Referral codes are strings of hexadecimal digits, modelled as the sequence
\* of their digit values (16 stands for any character that is no hex digit).
HexDigits == 0 .. 15

refRegex(c) == Len(c) = 8 /\ \A i \in 1 .. Len(c) : c[i] \in HexDigits

\* Numbers up to 2^32 are kept as two 16-bit halves, hi * 65536 + lo.
Half == 256 * 256
Num(hi, lo) == [hi |-> hi, lo |-> lo]

\* hexadecimal digits of n < 65536, without leading zeros
RECURSIVE hex(_)
hex(n) == IF n < 16 THEN <<n>> ELSE Append(hex(n \div 16), n % 16)

\* Number.prototype.toString(16)
toString16(n) ==
    IF n.hi = 0 THEN hex(n.lo)
    ELSE hex(n.hi) \o <<n.lo \div 4096, (n.lo \div 256) % 16, (n.lo \div 16) % 16, n.lo % 16>>

\* const globalRef = '00000000'
globalRef == <<0, 0, 0, 0, 0, 0, 0, 0>>
\* a code stored from the start, one never stored, a short one
CodeA == <<1, 0, 0, 0, 0, 0, 0, 0>>
UnknownCode == <<2, 0, 0, 0, 0, 0, 0, 0>>
ShortCode == <<15, 15>>

\* values of Math.floor(Math.random() * 4294967295) the model draws
\* 255 and 4294967294
RandomValues == {Num(0, 255), Num(Half - 1, Half - 2)}

\* The account a referral code is bound to is a string or an array of strings
\* (isArray); uuidRegex.test coerces an array to its items joined by commas.
Str(s) == [isArray |-> FALSE, items |-> <<s>>]
Arr(q) == [isArray |-> TRUE, items |-> q]
uuidRegexTest(a) == Len(a.items) = 1 /\ uuidRegex(a.items[1])

\* proxy pool addresses and a proxy address a caller brings; "" is none
PoolAddrs == {"0xp1", "0xp2", "0xp3"}
OwnProxy == "0xown"

\* wallets (JSON keystore strings): the address inside, and whether the
\* string parses as JSON; tag tells apart two strings with the same address
Wallet(address, tag) == [json |-> TRUE, address |-> address, tag |-> tag]
NoWallet == [json |-> FALSE, address |-> "", tag |-> ""]
BadJson == [json |-> FALSE, address |-> "", tag |-> "{"]
ValidAddrs == {"0xa1", "0xa2"}
WalletStrs ==
    {Wallet("0xa1", "k1"), Wallet("0xa1", "k2"), Wallet("0xa2", "k1"),
     Wallet("0xzz", "k1"), BadJson}

\* isAddress: the 40-hex-digit strings with a valid case pattern
isAddress(address) == address \in ValidAddrs

----------------------------------------------------------------------------
\* Receipts (poker-helper).  A parsed receipt carries the signer recovered
\* from its signature, its type, its creation time in seconds and the
\* account it is about.

Receipt(signer, type, created, accountId) ==
    [wellformed |-> TRUE, signer |-> signer, type |-> type,
     created |-> created, accountId |-> accountId]

GarbageReceipt ==
    [wellformed |-> FALSE, signer |-> Garbage, type |-> Garbage,
     created |-> 0, accountId |-> Garbage]

\* new Receipt().createConf(accountId).sign(this.sessionPriv)
createConf(accountId, nowMs) ==
    Receipt(SessionAddr, CREATE_CONF, nowMs \div MsPerSecond, accountId)

\* new Receipt().resetConf(accountId, address).sign(this.sessionPriv)
resetConf(accountId, nowMs) ==
    Receipt(SessionAddr, RESET_CONF, nowMs \div MsPerSecond, accountId)

\* outcome of a call: the error thrown ("none" when it returns) and its message
Throw(err, msg) == [err |-> err, msg |-> msg, session |-> GarbageReceipt]
Return(session) == [err |-> "none", msg |-> "", session |-> session]

\* checkSession with the type check dropped
checkSession_noType(sessionReceipt, sessionAddr, type, timeoutHours, nowMs) ==
    IF ~sessionReceipt.wellformed
    THEN Throw("Unauthorized", "invalid session")
    ELSE IF sessionReceipt.signer # sessionAddr
    THEN Throw("Unauthorized", "invalid session signer")
    ELSE LET timeout == nowMs - HourMs * timeoutHours
             created == sessionReceipt.created * MsPerSecond
         IN  IF timeoutHours # 0 /\ timeoutHours > 0 /\ created < timeout
             THEN Throw("Unauthorized", "session expired")
             ELSE IF timeoutHours # 0 /\ timeoutHours < 0 /\ created >= timeout
             THEN Throw("Unauthorized", "session is too fresh")
             ELSE Return(sessionReceipt)

\* checkSession with the expiry comparison made inclusive (<= for <)
checkSession_inclusive(sessionReceipt, sessionAddr, type, timeoutHours, nowMs) ==
    IF ~sessionReceipt.wellformed
    THEN Throw("Unauthorized", "invalid session")
    ELSE IF sessionReceipt.signer # sessionAddr
    THEN Throw("Unauthorized", "invalid session signer")
    ELSE LET timeout == nowMs - HourMs * timeoutHours
             created == sessionReceipt.created * MsPerSecond
         IN  IF timeoutHours # 0 /\ timeoutHours > 0 /\ created <= timeout
             THEN Throw("Unauthorized", "session expired")
             ELSE IF timeoutHours # 0 /\ timeoutHours < 0 /\ created >= timeout
             THEN Throw("Unauthorized", "session is too fresh")
             ELSE IF sessionReceipt.type # type
             THEN Throw("Forbidden", "Wallet operation forbidden")
             ELSE Return(sessionReceipt)

\* checkSession with the type check moved before the signer and time checks
checkSession_typeFirst(sessionReceipt, sessionAddr, type, timeoutHours, nowMs) ==
    IF ~sessionReceipt.wellformed
    THEN Throw("Unauthorized", "invalid session")
    ELSE IF sessionReceipt.type # type
    THEN Throw("Forbidden", "Wallet operation forbidden")
    ELSE IF sessionReceipt.signer # sessionAddr
    THEN Throw("Unauthorized", "invalid session signer")
    ELSE LET timeout == nowMs - HourMs * timeoutHours
             created == sessionReceipt.created * MsPerSecond
         IN  IF timeoutHours # 0 /\ timeoutHours > 0 /\ created < timeout
             THEN Throw("Unauthorized", "session expired")
             ELSE IF timeoutHours # 0 /\ timeoutHours < 0 /\ created >= timeout
             THEN Throw("Unauthorized", "session is too fresh")
             ELSE Return(sessionReceipt)

\* checkSession, with Date.now() passed as nowMs.  The source compares
\* session.created with Date.now() / 1000 - 60 * 60 * timeoutHours; both sides
\* are multiplied by 1000 here to stay in the integers.
checkSession(sessionReceipt, sessionAddr, type, timeoutHours, nowMs) ==
    IF ~sessionReceipt.wellformed
    THEN Throw("Unauthorized", "invalid session")
    ELSE IF sessionReceipt.signer # sessionAddr
    THEN Throw("Unauthorized", "invalid session signer")
    ELSE LET timeout == nowMs - HourMs * timeoutHours
             created == sessionReceipt.created * MsPerSecond
         IN  IF timeoutHours # 0 /\ timeoutHours > 0 /\ created < timeout
             THEN Throw("Unauthorized", "session expired")
             ELSE IF timeoutHours # 0 /\ timeoutHours < 0 /\ created >= timeout
             THEN Throw("Unauthorized", "session is too fresh")
             ELSE IF sessionReceipt.type # type
             THEN Throw("Forbidden", "Wallet operation forbidden")
             ELSE Return(sessionReceipt)

----------------------------------------------------------------------------
\* The state before any call.

NoFx == [confirm |-> <<>>, reset |-> <<>>, alerts |-> 0, notified |-> 0, called |-> {}]
NoRet == [hasDefault |-> FALSE, defaultRef |-> Str("")]

NoCall ==
    [op |-> "none", arg |-> <<>>, res |-> Throw("none", ""), ret |-> NoRet, fx |-> NoFx]

\* the response of the last call is delivered; the next call may start
Respond ==
    /\ last.op # "none"
    /\ last' = NoCall
    /\ UNCHANGED <<config, now, accounts, refs, proxies, mail, issued, signups, faulted, calls>>

\* checkSession on its own: the clock is drawn from values on and off a whole
\* second, the receipt from creation times around every cutoff.

TimeoutValues == {0, SessionTimeoutHours, ResendTimeoutHours, 1, -1}

CSNows == {4 * HourMs, 4 * HourMs + 500}

CSCreated(nowMs) ==
    { (nowMs \div MsPerSecond) - SecondsPerHour * h + d :
        h \in TimeoutValues, d \in (0 - Skew) .. Skew }

CSReceipts(nowMs) ==
    { Receipt(s, t, c, "uuid-1") : s \in Signers, t \in Types, c \in CSCreated(nowMs) }
    \cup {GarbageReceipt}

CSInit ==
    /\ now \in CSNows
    /\ accounts = <<>>
    /\ refs = <<>>
    /\ proxies = {}
    /\ mail = {}
    /\ last = NoCall
    /\ issued = <<>>
    /\ signups = <<>>
    /\ faulted = FALSE
    /\ calls = <<>>
    /\ config = DefaultConfig

CheckSessionCall ==
    /\ last.op = "none"
    /\ \E r \in CSReceipts(now), t \in {CREATE_CONF, RESET_CONF}, h \in TimeoutValues :
          /\ last' = [op |-> "checkSession",
                      arg |-> [receipt |-> r, type |-> t, timeoutHours |-> h],
                      res |-> checkSession(r, SessionAddr, t, h, now),
                      ret |-> NoRet, fx |-> NoFx]
          /\ UNCHANGED <<config, now, accounts, refs, proxies, mail, issued, signups, faulted, calls>>

CSNext == CheckSessionCall \/ Respond

SpecSession == CSInit /\ [][CSNext]_vars

----------------------------------------------------------------------------
\* Storage (this.db).  The tables are total functions; a row or a referral
\* that is not stored has exists = FALSE.

AllCodes ==
    {globalRef, CodeA, UnknownCode, ShortCode}
    \cup { toString16(n) : n \in RandomValues }

NoRow ==
    [exists |-> FALSE, email |-> "", pendingEmail |-> "", referral |-> "",
     proxyAddr |-> "", wallet |-> NoWallet]
NoRef == [exists |-> FALSE, account |-> Str(""), allowance |-> 0]
Ref(account, allowance) == [exists |-> TRUE, account |-> account, allowance |-> allowance]

\* db.checkAccountConflict(accountId, email): fails on an existing id or email
checkAccountConflict(accountId, email) ==
    \/ accounts[accountId].exists
    \/ \E a \in UuidIds :
          accounts[a].exists /\ email \in {accounts[a].email, accounts[a].pendingEmail}

\* db.putAccount(accountId, email, referral, proxyAddr): the email is pending
\* until it is confirmed
putAccount(accountId, email, referral, proxyAddr) ==
    [accounts EXCEPT ![accountId] =
        [exists |-> TRUE, email |-> "", pendingEmail |-> email,
         referral |-> referral, proxyAddr |-> proxyAddr, wallet |-> NoWallet]]

\* db.setRefAllowance(refCode, allowance)
setRefAllowance(refCode, allowance) ==
    [refs EXCEPT ![refCode].allowance = allowance]

\* db.getAvailableProxiesCount() on pool p
getAvailableProxiesCount(p) == Cardinality(p)

----------------------------------------------------------------------------
\* Outcome of a call, and what it sent: receipts mailed by sendConfirm and
\* sendReset, alerts sent, notifications published.

Done(op, arg, res, ret, fx) ==
    last' = [op |-> op, arg |-> arg, res |-> res, ret |-> ret, fx |-> fx]

\* the call fails, or returns, without writing anything
Reject(op, arg, res) ==
    /\ Done(op, arg, res, NoRet, NoFx)
    /\ UNCHANGED <<config, now, accounts, refs, proxies, mail, issued, signups, faulted, calls>>

\* the call fails without writing anything, after the collaborator calls made
RejectAfter(op, arg, res, called) ==
    /\ Done(op, arg, res, NoRet, [NoFx EXCEPT !.called = called])
    /\ UNCHANGED <<config, now, accounts, refs, proxies, mail, issued, signups, faulted, calls>>

----------------------------------------------------------------------------
\* getRef

\* the handler of the two reads, with the named code's check made first
getRefOutcome_namedFirst(referral, glob) ==
    IF referral.allowance < 1
    THEN [res |-> Throw("Teapot", "account invite limit reached"), ret |-> NoRet]
    ELSE IF glob.allowance < 1
    THEN [res |-> Throw("EnhanceYourCalm", "global limit reached"), ret |-> NoRet]
    ELSE IF uuidRegexTest(glob.account)
    THEN [res |-> Return(GarbageReceipt),
          ret |-> [hasDefault |-> TRUE, defaultRef |-> glob.account]]
    ELSE [res |-> Return(GarbageReceipt), ret |-> NoRet]

\* the handler of the two reads: the error thrown or the value returned
getRefOutcome(referral, glob) ==
    IF glob.allowance < 1
    THEN [res |-> Throw("EnhanceYourCalm", "global limit reached"), ret |-> NoRet]
    ELSE IF referral.allowance < 1
    THEN [res |-> Throw("Teapot", "account invite limit reached"), ret |-> NoRet]
    ELSE IF uuidRegexTest(glob.account)
    THEN [res |-> Return(GarbageReceipt),
          ret |-> [hasDefault |-> TRUE, defaultRef |-> glob.account]]
    ELSE [res |-> Return(GarbageReceipt), ret |-> NoRet]

\* getRef consuming one use of the named code when it succeeds
getRef_consuming(refCode) ==
    LET arg == [refCode |-> refCode]
        referral == IF globalRef = refCode THEN Ref(Str(""), 1) ELSE refs[refCode]
        glob == refs[globalRef]
        out == getRefOutcome(referral, glob)
    IN  IF ~refRegex(refCode)
        THEN Reject("getRef", arg, Throw("BadRequest", "refCode not valid"))
        ELSE IF ~referral.exists \/ ~glob.exists
        THEN Reject("getRef", arg, Throw("NotFound", "db.getRef"))
        ELSE /\ Done("getRef", arg, out.res, out.ret, NoFx)
             /\ refs' = IF out.res.err = "none"
                        THEN setRefAllowance(refCode, referral.allowance - 1)
                        ELSE refs
             /\ UNCHANGED <<config, now, accounts, proxies, mail, issued, signups,
                            faulted, calls>>

getRef(refCode) ==
    LET arg == [refCode |-> refCode]
        \* if request has global refCode, avoid db request
        referral == IF globalRef = refCode THEN Ref(Str(""), 1) ELSE refs[refCode]
        glob == refs[globalRef]
        out == getRefOutcome(referral, glob)
    IN  IF ~refRegex(refCode)
        THEN Reject("getRef", arg, Throw("BadRequest", "refCode not valid"))
        ELSE IF ~referral.exists \/ ~glob.exists
        THEN Reject("getRef", arg, Throw("NotFound", "db.getRef"))
        ELSE /\ Done("getRef", arg, out.res, out.ret, NoFx)
             /\ UNCHANGED <<config, now, accounts, refs, proxies, mail, issued, signups,
                            faulted, calls>>

----------------------------------------------------------------------------
\* addAccount


\* points where a collaborator call of addAccount may fail once the checks
\* have passed
PersistFaults == {"putAccount", "deleteProxy", "setRefAllowance"}
AddAccountFaults ==
    {"none", "getAvailableProxiesCount", "sendAlert", "sendConfirm"} \cup PersistFaults

\* the shape checks without the check of the email
validateSignup_noEmail(accountId, email, refCode) ==
    IF ~uuidRegex(accountId) THEN "accountId not uuid v4"
    ELSE IF ~refRegex(refCode) THEN "refCode has invalid format"
    ELSE ""

\* the three shape checks; "" when all pass
validateSignup(accountId, email, refCode) ==
    IF ~uuidRegex(accountId) THEN "accountId not uuid v4"
    ELSE IF ~emailRegex(email) THEN "email has invalid format"
    ELSE IF ~refRegex(refCode) THEN "refCode has invalid format"
    ELSE ""

\* the checks on the referral read from the store
checkReferral(referral) ==
    IF referral.allowance < 1
    THEN Throw("Teapot", "referral invite limit reached")
    ELSE IF ~uuidRegexTest(referral.account)
    THEN Throw("BadRequest", "refCode can not be used for signup")
    ELSE Return(GarbageReceipt)

\* Array.isArray(referral.account) ? referral.account[0] : referral.account
referralAccount(referral) ==
    IF referral.account.isArray THEN referral.account.items[1]
    ELSE referral.account.items[1]

\* the allowance written back, without the decrement
decrementedAllowance_same(referral) == referral.allowance

\* the allowance written back: referral.allowance - 1
decrementedAllowance(referral) == referral.allowance - 1

\* the conflict check left out
conflictCheck_skipped(accountId, email) == FALSE

\* await this.db.checkAccountConflict(accountId, email)
conflictCheck(accountId, email) == checkAccountConflict(accountId, email)

\* checkProxyPoolSize on pool p: the number of alerts it sends
checkProxyPoolSize(p, fault) ==
    IF ~config.slackAlert \/ config.minProxiesAlertThreshold = 0 THEN 0
    ELSE IF fault = "getAvailableProxiesCount" THEN 0
    ELSE IF getAvailableProxiesCount(p) >= config.minProxiesAlertThreshold THEN 0
    ELSE 1

\* checkProxyPoolSize on pool p: the collaborator calls it makes
checkProxyPoolSizeCalls(p, fault) ==
    IF ~config.slackAlert \/ config.minProxiesAlertThreshold = 0 THEN {}
    ELSE IF checkProxyPoolSize(p, fault) = 1
    THEN {"getAvailableProxiesCount", "sendAlert"}
    ELSE {"getAvailableProxiesCount"}

\* checkProxyPoolSize on pool p: whether the promise it returns rejects
checkProxyPoolSizeFails(p, fault) ==
    \/ fault = "getAvailableProxiesCount"
         /\ "getAvailableProxiesCount" \in checkProxyPoolSizeCalls(p, fault)
    \/ fault = "sendAlert" /\ "sendAlert" \in checkProxyPoolSizeCalls(p, fault)

\* the pool check with its failure passed on to the caller
poolCheckError_propagated(failed) == IF failed THEN "AlertError" ELSE "none"

\* try { await this.checkProxyPoolSize() } catch (e) { console.warn }: the
\* error that leaves the block
poolCheckError(failed) == "none"

addAccount(accountId, email, recapOk, refCode, fault) ==
    LET arg == [accountId |-> accountId, email |-> email, recapOk |-> recapOk,
                refCode |-> refCode, fault |-> fault]
        bad == validateSignup(accountId, email, refCode)
        receipt == createConf(accountId, now)
        referral == refs[refCode]
        persistOk == fault \notin PersistFaults
        read == {"getRef", "verify"}
        reserved == read \cup {"getProxy"}
        checked == reserved \cup {"checkAccountConflict"}
    IN  IF bad # ""
        THEN fault = "none" /\ Reject("addAccount", arg, Throw("BadRequest", bad))
        ELSE IF ~referral.exists
        THEN fault = "none"
             /\ RejectAfter("addAccount", arg, Throw("NotFound", "db.getRef"), read)
        ELSE IF ~recapOk
        THEN fault = "none"
             /\ RejectAfter("addAccount", arg, Throw("Captcha", "recaptcha.verify"), read)
        ELSE IF proxies = {}
        THEN fault = "none"
             /\ RejectAfter("addAccount", arg, Throw("NoProxy", "db.getProxy"), reserved)
        ELSE IF checkReferral(referral).err # "none"
        THEN fault = "none"
             /\ RejectAfter("addAccount", arg, checkReferral(referral), reserved)
        ELSE IF conflictCheck(accountId, email)
        THEN fault = "none"
             /\ RejectAfter("addAccount", arg,
                            Throw("Conflict", "db.checkAccountConflict"), checked)
        ELSE \E proxyAddr \in proxies :
            LET pool == IF fault = "deleteProxy" THEN proxies ELSE proxies \ {proxyAddr}
                poolErr == poolCheckError(checkProxyPoolSizeFails(pool, fault))
                confirmed == persistOk /\ poolErr = "none"
                sent == confirmed /\ fault # "sendConfirm"
            IN  /\ accounts' =
                      IF fault = "putAccount" THEN accounts
                      ELSE putAccount(accountId, toLowerCase(email),
                                      referralAccount(referral), proxyAddr)
                /\ proxies' = pool
                /\ refs' =
                      IF fault = "setRefAllowance" THEN refs
                      ELSE setRefAllowance(refCode, decrementedAllowance(referral))
                /\ mail' = IF sent THEN mail \cup {receipt} ELSE mail
                /\ signups' = IF sent THEN [signups EXCEPT ![refCode] = @ + 1] ELSE signups
                /\ faulted' = (faulted \/ ~sent)
                /\ Done("addAccount", arg,
                        IF ~persistOk THEN Throw("StorageError", fault)
                        ELSE IF poolErr # "none" THEN Throw(poolErr, fault)
                        ELSE IF ~sent THEN Throw("EmailError", fault)
                        ELSE Return(GarbageReceipt),
                        NoRet,
                        [NoFx EXCEPT
                            !.confirm = IF sent THEN <<receipt>> ELSE <<>>,
                            !.alerts = IF persistOk /\ fault # "sendAlert"
                                       THEN checkProxyPoolSize(pool, fault) ELSE 0,
                            !.called =
                                checked \cup PersistFaults
                                \cup (IF persistOk
                                      THEN checkProxyPoolSizeCalls(pool, fault) ELSE {})
                                \cup (IF confirmed THEN {"sendConfirm"} ELSE {})])
                /\ UNCHANGED <<config, now, issued, calls>>

----------------------------------------------------------------------------
\* Wallet binding and reset

\* checkWallet: JSON.parse and the address check
checkWallet(walletStr) ==
    IF ~walletStr.json THEN Throw("BadRequest", "invalid wallet json")
    ELSE IF ~isAddress(walletStr.address) THEN Throw("BadRequest", "invalid address in wallet")
    ELSE Return(GarbageReceipt)

\* account.wallet taken as never set
hasWallet_never(account) == FALSE

\* account.wallet is set (a non-empty string)
hasWallet(account) == account.wallet # NoWallet

\* db.putRef(refCode, accountId, allowance)
putRef(refCode, accountId, allowance) ==
    [refs EXCEPT ![refCode] = Ref(Str(accountId), allowance)]

\* db.setWallet(accountId, walletStr, address, proxyAddr)
dbSetWallet(accountId, walletStr, proxyAddr) ==
    [accounts EXCEPT ![accountId].wallet = walletStr, ![accountId].proxyAddr = proxyAddr]

SetWalletFaults == {"none", "setWallet", "putRef", "addProxy", "publish"}
WriteFaults == {"setWallet", "putRef", "addProxy"}

\* the inputs that play no part when the call is rejected before its writes
Unused(proxyAddr, random, fault) ==
    proxyAddr = "" /\ random = Num(0, 255) /\ fault = "none"

\* the rejection of notify's promise handed to the caller
notifyOutcome_returned(fault) == IF fault = "publish" THEN "PublishError" ELSE "none"

\* this.notify(...) is called in the last handler and its promise is dropped:
\* the error that reaches the caller when the publish fails
notifyOutcome(fault) == "none"

setWallet(sessionReceipt, walletStr, proxyAddr, random, fault) ==
    LET arg == [sessionReceipt |-> sessionReceipt, walletStr |-> walletStr,
                proxyAddr |-> proxyAddr, random |-> random, fault |-> fault]
        session == checkSession(sessionReceipt, SessionAddr, CREATE_CONF,
                                SessionTimeoutHours, now)
        accountId == session.session.accountId
        account == accounts[accountId]
        \* if the user brings a proxy, put reserved one back into pool
        reservedProxy == IF proxyAddr # "" THEN account.proxyAddr ELSE ""
        newProxyAddr == IF proxyAddr # "" THEN proxyAddr ELSE account.proxyAddr
        refCode == toString16(random)
        written == fault \notin WriteFaults
    IN  IF session.err # "none"
        THEN /\ Unused(proxyAddr, random, fault) /\ walletStr = BadJson
             /\ Reject("setWallet", arg, session)
        ELSE IF checkWallet(walletStr).err # "none"
        THEN /\ Unused(proxyAddr, random, fault)
             /\ Reject("setWallet", arg, checkWallet(walletStr))
        ELSE IF ~account.exists
        THEN /\ Unused(proxyAddr, random, fault)
             /\ Reject("setWallet", arg, Throw("NotFound", "db.getAccount"))
        ELSE IF hasWallet(account)
        THEN /\ Unused(proxyAddr, random, fault)
             /\ Reject("setWallet", arg, Throw("Conflict", "wallet already set"))
        ELSE /\ accounts' =
                  IF fault = "setWallet" THEN accounts
                  ELSE dbSetWallet(accountId, walletStr, newProxyAddr)
             /\ refs' =
                  IF fault = "putRef" THEN refs
                  ELSE putRef(refCode, accountId, NewRefAllowance)
             /\ issued' =
                  IF fault = "putRef" THEN issued
                  ELSE [issued EXCEPT ![refCode] = NewRefAllowance]
             /\ signups' =
                  IF fault = "putRef" THEN signups
                  ELSE [signups EXCEPT ![refCode] = 0]
             /\ proxies' =
                  IF reservedProxy # "" /\ fault # "addProxy"
                  THEN proxies \cup {reservedProxy}
                  ELSE proxies
             /\ faulted' = (faulted \/ ~written)
             /\ Done("setWallet", arg,
                     IF ~written THEN Throw("StorageError", fault)
                     ELSE IF notifyOutcome(fault) # "none"
                     THEN Throw(notifyOutcome(fault), fault)
                     ELSE Return(session.session),
                     NoRet,
                     [NoFx EXCEPT !.notified = IF written THEN 1 ELSE 0])
             /\ UNCHANGED <<config, now, mail, calls>>

\* the comparison of the two addresses left out
sameAddress_never(existing, wallet) == FALSE

\* existing.address === wallet.address, on the strings as stored
sameAddress(existing, wallet) == existing.address = wallet.address

resetWallet(sessionReceipt, walletStr, fault) ==
    LET arg == [sessionReceipt |-> sessionReceipt, walletStr |-> walletStr,
                fault |-> fault]
        session == checkSession(sessionReceipt, SessionAddr, RESET_CONF,
                                SessionTimeoutHours, now)
        accountId == session.session.accountId
        account == accounts[accountId]
    IN  IF session.err # "none"
        THEN /\ fault = "none" /\ walletStr = BadJson
             /\ Reject("resetWallet", arg, session)
        ELSE IF checkWallet(walletStr).err # "none"
        THEN fault = "none" /\ Reject("resetWallet", arg, checkWallet(walletStr))
        ELSE IF ~account.exists
        THEN fault = "none" /\ Reject("resetWallet", arg, Throw("NotFound", "db.getAccount"))
        ELSE IF ~hasWallet(account)
        THEN fault = "none"
             /\ Reject("resetWallet", arg, Throw("Conflict", "no existing wallet found"))
        ELSE IF ~isAddress(walletStr.address)
        THEN fault = "none"
             /\ Reject("resetWallet", arg, Throw("BadRequest", "invalid address in wallet"))
        ELSE IF sameAddress(account.wallet, walletStr)
        THEN fault = "none"
             /\ Reject("resetWallet", arg,
                       Throw("Conflict", "can not reset wallet with same address"))
        ELSE IF fault = "setWallet"
        THEN /\ Done("resetWallet", arg, Throw("StorageError", fault), NoRet, NoFx)
             /\ faulted' = TRUE
             /\ UNCHANGED <<config, now, accounts, refs, proxies, mail, issued, signups, calls>>
        ELSE /\ accounts' = dbSetWallet(accountId, walletStr, account.proxyAddr)
             /\ Done("resetWallet", arg, Return(session.session), NoRet, NoFx)
             /\ UNCHANGED <<config, now, refs, proxies, mail, issued, signups, faulted, calls>>

----------------------------------------------------------------------------
\* Email confirmation, resend, reset request

\* db.updateEmailComplete(accountId, email): the pending email is confirmed
updateEmailComplete(accountId, email) ==
    [accounts EXCEPT ![accountId].email = email, ![accountId].pendingEmail = ""]

confirmEmail(sessionReceipt) ==
    LET arg == [sessionReceipt |-> sessionReceipt]
        session == checkSession(sessionReceipt, SessionAddr, CREATE_CONF,
                                SessionTimeoutHours, now)
        accountId == session.session.accountId
        account == accounts[accountId]
    IN  IF session.err # "none"
        THEN Reject("confirmEmail", arg, session)
        ELSE IF ~account.exists
        THEN Reject("confirmEmail", arg, Throw("NotFound", "db.getAccount"))
        ELSE /\ accounts' =
                  IF account.email = ""
                  THEN updateEmailComplete(accountId, account.pendingEmail)
                  ELSE accounts
             /\ Done("confirmEmail", arg, Return(session.session), NoRet, NoFx)
             /\ UNCHANGED <<config, now, refs, proxies, mail, issued, signups, faulted, calls>>

resendEmail(sessionReceipt) ==
    LET arg == [sessionReceipt |-> sessionReceipt]
        session == checkSession(sessionReceipt, SessionAddr, CREATE_CONF,
                                ResendTimeoutHours, now)
        accountId == session.session.accountId
        account == accounts[accountId]
        receipt == createConf(accountId, now)
        resent == account.email = ""
    IN  IF session.err # "none"
        THEN Reject("resendEmail", arg, session)
        ELSE IF ~account.exists
        THEN Reject("resendEmail", arg, Throw("NotFound", "db.getAccount"))
        ELSE /\ mail' = IF resent THEN mail \cup {receipt} ELSE mail
             /\ Done("resendEmail", arg, Return(session.session), NoRet,
                     [NoFx EXCEPT !.confirm = IF resent THEN <<receipt>> ELSE <<>>])
             /\ UNCHANGED <<config, now, accounts, refs, proxies, issued, signups, faulted, calls>>

\* db.getAccountByEmail(email): the ids of the accounts with this email
getAccountByEmail(email) ==
    { a \in UuidIds : accounts[a].exists /\ accounts[a].email = email }

resetRequest(email, recapOk) ==
    LET arg == [email |-> email, recapOk |-> recapOk]
        found == getAccountByEmail(email)
    IN  IF ~recapOk
        THEN \* the rejection reaches () => Promise.resolve()
             Reject("resetRequest", arg, Return(GarbageReceipt))
        ELSE IF found = {}
        THEN Reject("resetRequest", arg, Return(GarbageReceipt))
        ELSE \E accountId \in found :
             IF ~hasWallet(accounts[accountId])
             THEN \* JSON.parse(undefined) throws
                  Reject("resetRequest", arg, Throw("SyntaxError", "JSON.parse"))
             ELSE LET receipt == resetConf(accountId, now)
                  IN  /\ mail' = mail \cup {receipt}
                      /\ Done("resetRequest", arg, Return(GarbageReceipt), NoRet,
                              [NoFx EXCEPT !.reset = <<receipt>>])
                      /\ UNCHANGED <<config, now, accounts, refs, proxies, issued, signups,
                                     faulted, calls>>

----------------------------------------------------------------------------
\* The service: every handler runs to completion before the next call.

Init ==
    /\ now = 0
    /\ accounts = [a \in UuidIds |-> NoRow]
    /\ \E ga \in {Str(RootAccount), Str("")}, gn \in 0 .. MaxAllowance,
          ca \in {Str(RootAccount), Arr(<<RootAccount>>), Str("")},
          cn \in 0 .. MaxAllowance :
          refs = [c \in AllCodes |->
                    IF c = globalRef THEN Ref(ga, gn)
                    ELSE IF c = CodeA THEN Ref(ca, cn)
                    ELSE NoRef]
    /\ proxies = PoolAddrs
    /\ mail = {}
    /\ last = NoCall
    /\ issued = [c \in AllCodes |-> refs[c].allowance]
    /\ signups = [c \in AllCodes |-> 0]
    /\ faulted = FALSE
    /\ calls = <<>>
    /\ config = DefaultConfig

\* the clock advances past the session timeout
TickMs == (SessionTimeoutHours + 1) * HourMs

Tick ==
    /\ last.op = "none"
    /\ now + TickMs <= MaxTicks * TickMs
    /\ now' = now + TickMs
    /\ last' = [op |-> "tick", arg |-> <<>>, res |-> Return(GarbageReceipt),
                ret |-> NoRet, fx |-> NoFx]
    /\ UNCHANGED <<config, accounts, refs, proxies, mail, issued, signups, faulted, calls>>

GetRef == last.op = "none" /\ \E refCode \in AllCodes : getRef(refCode)

\* the signup requests drawn: id and email
SignupRequests ==
    {<<"uuid-1", "a@b.com">>, <<"uuid-2", "c@d.com">>, <<"uuid-2", "A@b.com">>,
     <<"uuid-1", "c@d.com">>, <<BadId, "a@b.com">>, <<"uuid-1", BadEmail>>}

AddAccount ==
    /\ last.op = "none"
    /\ \E rq \in SignupRequests, recapOk \in BOOLEAN,
          refCode \in AllCodes, fault \in AddAccountFaults :
          /\ fault # "none" => ~faulted
          /\ addAccount(rq[1], rq[2], recapOk, refCode, fault)

\* receipts a caller can present: those mailed, one signed by another key,
\* and a string that is no receipt
Presentable ==
    mail \cup {GarbageReceipt,
               Receipt(OtherAddr, CREATE_CONF, now \div MsPerSecond, "uuid-1")}

\* proxy addresses a caller of setWallet passes ("" for none)
CallerProxies == {"", OwnProxy}

SetWallet ==
    /\ last.op = "none"
    /\ \E r \in Presentable, w \in WalletStrs, pa \in CallerProxies,
          random \in RandomValues, fault \in SetWalletFaults :
          /\ fault # "none" => ~faulted
          /\ setWallet(r, w, pa, random, fault)

ResetWallet ==
    /\ last.op = "none"
    /\ \E r \in Presentable, w \in WalletStrs, fault \in {"none", "setWallet"} :
          /\ fault # "none" => ~faulted
          /\ resetWallet(r, w, fault)

ConfirmEmail == last.op = "none" /\ \E r \in Presentable : confirmEmail(r)

ResendEmail == last.op = "none" /\ \E r \in Presentable : resendEmail(r)

ResetRequest ==
    /\ last.op = "none"
    /\ \E email \in ValidEmails, recapOk \in BOOLEAN : resetRequest(email, recapOk)

\* Signup and referral allowance: getRef and addAccount on every input and
\* with every collaborator failure.
Next ==
    \/ Respond
    \/ GetRef
    \/ AddAccount

Spec == Init /\ [][Next]_vars

\* Wallet lifecycle of one account: its signup, then every wallet and email
\* call, with at most one collaborator failure.
WalletInit ==
    /\ Init
    /\ refs[globalRef] = Ref(Str(RootAccount), MaxAllowance)
    /\ refs[CodeA] = Ref(Str(RootAccount), MaxAllowance)

Signup ==
    /\ last.op = "none"
    /\ \E refCode \in { c \in AllCodes : refs[c].exists } :
          addAccount("uuid-1", "a@b.com", TRUE, refCode, "none")

WalletNext ==
    \/ Tick
    \/ Respond
    \/ Signup
    \/ SetWallet
    \/ ResetWallet
    \/ ConfirmEmail
    \/ ResendEmail
    \/ ResetRequest

SpecWallet == WalletInit /\ [][WalletNext]_vars

\* Proxy pool: two accounts sign up and bind wallets, under every alert
\* setting, with at most one collaborator failure.

\* alert below the threshold; no alert hook; no threshold
Configs == {DefaultConfig, Config(FALSE, MinProxiesAlertThreshold), Config(TRUE, 0)}

\* the proxyAddr a caller of setWallet passes: none, an address of its own,
\* or any address the pool started with
SuppliedProxies == CallerProxies \cup PoolAddrs

PoolInit ==
    /\ now = 0
    /\ accounts = [a \in UuidIds |-> NoRow]
    /\ refs = [c \in AllCodes |->
                 IF c \in {globalRef, CodeA} THEN Ref(Str(RootAccount), MaxAllowance)
                 ELSE NoRef]
    /\ proxies = PoolAddrs
    /\ mail = {}
    /\ last = NoCall
    /\ issued = [c \in AllCodes |-> refs[c].allowance]
    /\ signups = [c \in AllCodes |-> 0]
    /\ faulted = FALSE
    /\ calls = <<>>
    /\ config \in Configs

PoolSignup ==
    /\ last.op = "none"
    /\ \E rq \in {<<"uuid-1", "a@b.com">>, <<"uuid-2", "c@d.com">>},
          fault \in AddAccountFaults :
          /\ fault # "none" => ~faulted
          /\ addAccount(rq[1], rq[2], TRUE, CodeA, fault)

PoolSetWallet ==
    /\ last.op = "none"
    /\ \E r \in mail, pa \in SuppliedProxies, random \in RandomValues :
          setWallet(r, Wallet("0xa1", "k1"), pa, random, "none")

PoolNext ==
    \/ Respond
    \/ PoolSignup
    \/ PoolSetWallet

SpecPool == PoolInit /\ [][PoolNext]_vars

----------------------------------------------------------------------------
\* Concurrent addAccount calls.  A call suspends at every await; each storage
\* call is one step, and the three writes of the persist step, issued
\* together, land in any order.

Procs == 1 .. MaxCalls

Idle ==
    [pc |-> "idle", accountId |-> "", email |-> "", refCode |-> <<>>,
     referral |-> NoRef, proxyAddr |-> "", pending |-> {}, err |-> ""]

\* each call signs up its own id and email
ConcRequest(p) ==
    IF p = 1 THEN <<"uuid-1", "a@b.com">>
    ELSE IF p = 2 THEN <<"uuid-2", "c@d.com">>
    ELSE <<"uuid-2", "A@b.com">>

Ended(p, err) == [calls EXCEPT ![p].pc = "done", ![p].err = err]

ConcInit ==
    /\ now = 0
    /\ accounts = [a \in UuidIds |-> NoRow]
    /\ \E cn \in 0 .. MaxAllowance :
          refs = [c \in AllCodes |->
                    IF c = globalRef THEN Ref(Str(RootAccount), MaxAllowance)
                    ELSE IF c = CodeA THEN Ref(Str(RootAccount), cn)
                    ELSE NoRef]
    /\ proxies = PoolAddrs
    /\ mail = {}
    /\ last = NoCall
    /\ issued = [c \in AllCodes |-> refs[c].allowance]
    /\ signups = [c \in AllCodes |-> 0]
    /\ faulted = FALSE
    /\ calls = [p \in Procs |-> Idle]
    /\ config = DefaultConfig

\* the shape checks, the receipt, and the two awaited calls are issued
Begin(p) ==
    /\ calls[p].pc = "idle"
    /\ \E refCode \in {CodeA, globalRef, ShortCode} :
          LET rq == ConcRequest(p)
          IN  calls' =
                IF validateSignup(rq[1], rq[2], refCode) # ""
                THEN Ended(p, "BadRequest")
                ELSE [calls EXCEPT ![p] =
                        [Idle EXCEPT !.pc = "getRef", !.accountId = rq[1],
                                     !.email = rq[2], !.refCode = refCode]]
    /\ UNCHANGED <<config, now, accounts, refs, proxies, mail, last, issued, signups, faulted>>

\* db.getRef answers (the captcha passes)
ReadRef(p) ==
    /\ calls[p].pc = "getRef"
    /\ calls' = [calls EXCEPT ![p].pc = "getProxy", ![p].referral = refs[calls[p].refCode]]
    /\ UNCHANGED <<config, now, accounts, refs, proxies, mail, last, issued, signups, faulted>>

\* db.getProxy answers; then the checks on the referral read
GetProxy(p) ==
    /\ calls[p].pc = "getProxy"
    /\ IF proxies = {}
       THEN calls' = Ended(p, "NoProxy")
       ELSE \E proxyAddr \in proxies :
              calls' =
                IF checkReferral(calls[p].referral).err # "none"
                THEN Ended(p, checkReferral(calls[p].referral).err)
                ELSE [calls EXCEPT ![p].pc = "checkConflict", ![p].proxyAddr = proxyAddr]
    /\ UNCHANGED <<config, now, accounts, refs, proxies, mail, last, issued, signups, faulted>>

\* db.checkAccountConflict answers; then the three writes are issued
CheckConflict(p) ==
    /\ calls[p].pc = "checkConflict"
    /\ calls' =
          IF conflictCheck(calls[p].accountId, calls[p].email)
          THEN Ended(p, "Conflict")
          ELSE [calls EXCEPT ![p].pc = "persist",
                             ![p].pending = {"putAccount", "deleteProxy", "setRefAllowance"}]
    /\ UNCHANGED <<config, now, accounts, refs, proxies, mail, last, issued, signups, faulted>>

\* one of the writes lands; after the last the call goes on to sendConfirm
Landed(p, write) ==
    calls' = [calls EXCEPT
                ![p].pending = @ \ {write},
                ![p].pc = IF calls[p].pending = {write} THEN "sendConfirm" ELSE "persist"]

PutAccountLands(p) ==
    /\ calls[p].pc = "persist" /\ "putAccount" \in calls[p].pending
    /\ accounts' = putAccount(calls[p].accountId, toLowerCase(calls[p].email),
                              referralAccount(calls[p].referral), calls[p].proxyAddr)
    /\ Landed(p, "putAccount")
    /\ UNCHANGED <<config, now, refs, proxies, mail, last, issued, signups, faulted>>

DeleteProxyLands(p) ==
    /\ calls[p].pc = "persist" /\ "deleteProxy" \in calls[p].pending
    /\ proxies' = proxies \ {calls[p].proxyAddr}
    /\ Landed(p, "deleteProxy")
    /\ UNCHANGED <<config, now, accounts, refs, mail, last, issued, signups, faulted>>

SetRefAllowanceLands(p) ==
    /\ calls[p].pc = "persist" /\ "setRefAllowance" \in calls[p].pending
    /\ refs' = setRefAllowance(calls[p].refCode, decrementedAllowance(calls[p].referral))
    /\ Landed(p, "setRefAllowance")
    /\ UNCHANGED <<config, now, accounts, proxies, mail, last, issued, signups, faulted>>

\* the pool check, then sendConfirm: the signup has succeeded
SendConfirm(p) ==
    /\ calls[p].pc = "sendConfirm"
    /\ mail' = mail \cup {createConf(calls[p].accountId, now)}
    /\ signups' = [signups EXCEPT ![calls[p].refCode] = @ + 1]
    /\ calls' = Ended(p, "none")
    /\ UNCHANGED <<config, now, accounts, refs, proxies, last, issued, faulted>>

ConcNext ==
    \/ \E p \in Procs : Begin(p)
    \/ \E p \in Procs : ReadRef(p)
    \/ \E p \in Procs : GetProxy(p)
    \/ \E p \in Procs : CheckConflict(p)
    \/ \E p \in Procs : PutAccountLands(p)
    \/ \E p \in Procs : DeleteProxyLands(p)
    \/ \E p \in Procs : SetRefAllowanceLands(p)
    \/ \E p \in Procs : SendConfirm(p)

SpecConcurrent == ConcInit /\ [][ConcNext]_vars

----------------------------------------------------------------------------
\* Properties of checkSession (SpecSession).

CSCalled == last.op = "checkSession"
CSReceipt == last.arg.receipt
CSHours == last.arg.timeoutHours
CSSignerOk == CSReceipt.wellformed /\ CSReceipt.signer = SessionAddr
CSTypeDiffers == CSReceipt.wellformed /\ CSReceipt.type # last.arg.type
\* now - timeoutHours hours, and the receipt's creation time, in milliseconds
CSCutoff == now - CSHours * HourMs
CSCreatedMs == CSReceipt.created * MsPerSecond
\* the receipt is inside the time window as the code computes it
CSInWindow ==
    \/ CSHours = 0
    \/ CSHours > 0 /\ CSCreatedMs >= CSCutoff
    \/ CSHours < 0 /\ CSCreatedMs < CSCutoff

\* C6 (as stated): a receipt of type A checked against an expected type B # A
\* fails with Forbidden, for every signer, creation time and timeoutHours.
C6_AsStated ==
    (CSCalled /\ CSTypeDiffers) => last.res.err = "Forbidden"

\* C6 (amended): a receipt of type A checked against an expected type B # A
\* always fails; the failure is Forbidden exactly when the signer is the
\* expected one and the time check passes, and Unauthorized otherwise.
C6_TypeMismatchFails ==
    (CSCalled /\ CSTypeDiffers) =>
        /\ last.res.err \in {"Forbidden", "Unauthorized"}
        /\ last.res.err = "Forbidden" <=> (CSSignerOk /\ CSInWindow)

C6_Witness ==
    /\ CSCalled /\ CSTypeDiffers /\ CSSignerOk /\ CSInWindow
    /\ CSHours = SessionTimeoutHours
    /\ last.res.err = "Forbidden"

\* C7 (as stated): with a positive timeoutHours a correctly signed receipt
\* created before the cutoff or exactly at the cutoff fails with Unauthorized;
\* only receipts created strictly after the cutoff pass the time check.
C7_AsStated ==
    (CSCalled /\ CSSignerOk /\ CSHours > 0) =>
        /\ CSCreatedMs <= CSCutoff => last.res.err = "Unauthorized"
        /\ last.res.msg # "session expired" => CSCreatedMs > CSCutoff

\* C7 (amended): with a positive timeoutHours a correctly signed receipt
\* created strictly before the cutoff fails with Unauthorized (expired); a
\* receipt created exactly at the cutoff or after it passes the time check.
C7_ExpiryBoundary ==
    (CSCalled /\ CSSignerOk /\ CSHours > 0) =>
        /\ CSCreatedMs < CSCutoff =>
              (last.res.err = "Unauthorized" /\ last.res.msg = "session expired")
        /\ CSCreatedMs >= CSCutoff =>
              /\ last.res.msg # "session expired"
              /\ last.res.err = (IF CSTypeDiffers THEN "Forbidden" ELSE "none")

C7_Witness ==
    /\ CSCalled /\ CSSignerOk /\ CSHours = SessionTimeoutHours
    /\ CSCreatedMs = CSCutoff
    /\ last.res.err = "none"

\* C9: checkSession checks parse, signer, time window, type in this order: a
\* wrong signer gives Unauthorized whatever the type and age; a correctly
\* signed receipt outside the time window gives Unauthorized whatever its
\* type; Forbidden is raised only when signer and time window pass and the
\* type differs; the parsed session is returned iff all checks pass.
C9_CheckOrder ==
    CSCalled =>
        /\ ~CSReceipt.wellformed => last.res.err = "Unauthorized"
        /\ (CSReceipt.wellformed /\ ~CSSignerOk) => last.res.err = "Unauthorized"
        /\ (CSSignerOk /\ ~CSInWindow) => last.res.err = "Unauthorized"
        /\ last.res.err = "Forbidden" <=> (CSSignerOk /\ CSInWindow /\ CSTypeDiffers)
        /\ last.res.err = "none" <=> (CSSignerOk /\ CSInWindow /\ ~CSTypeDiffers)
        /\ last.res.err = "none" => last.res.session = CSReceipt

C9_Witness ==
    /\ CSCalled /\ CSReceipt.wellformed /\ ~CSSignerOk /\ CSTypeDiffers
    /\ CSHours > 0 /\ CSCreatedMs < CSCutoff
    /\ last.res.err = "Unauthorized"

----------------------------------------------------------------------------
\* Properties of signup and referral allowance (Spec).

\* the step is an addAccount call; its arguments
AddStep == last'.op = "addAccount"
\* the call passes the shape checks, the captcha and both reads
AddReaches ==
    /\ uuidRegex(last'.arg.accountId) /\ emailRegex(last'.arg.email)
    /\ refRegex(last'.arg.refCode)
    /\ last'.arg.recapOk
    /\ refs[last'.arg.refCode].exists
    /\ proxies # {}
\* the referral code of the call is bound to a UUID account
AddBound == uuidRegexTest(refs[last'.arg.refCode].account)
\* no stored account has the id or the email of the call
AddFresh ==
    /\ ~accounts[last'.arg.accountId].exists
    /\ \A a \in UuidIds :
          accounts[a].exists =>
              last'.arg.email \notin {accounts[a].email, accounts[a].pendingEmail}
\* nothing stored changes and no email is sent
AddNoEffect ==
    /\ UNCHANGED <<accounts, refs, proxies, mail>>
    /\ last'.fx.confirm = <<>>

\* C1: under sequential addAccount calls the stored allowance is never below
\* zero; with no collaborator failure it is the initial allowance N minus the
\* number of successful signups; an otherwise-valid call succeeds exactly when
\* the allowance is >= 1 and takes one from it, and a call that finds the
\* allowance at 0 (the N+1-th) fails with Teapot.
C1_Inv ==
    \A c \in AllCodes :
        /\ refs[c].allowance >= 0
        /\ ~faulted => refs[c].allowance + signups[c] = issued[c]

C1_Step ==
    (AddStep /\ last'.arg.fault = "none") =>
        LET code == last'.arg.refCode
        IN  /\ (AddReaches /\ refs[code].allowance < 1) =>
                  (last'.res.err = "Teapot" /\ refs' = refs)
            /\ (AddReaches /\ AddBound /\ AddFresh /\ refs[code].allowance >= 1) =>
                  /\ last'.res.err = "none"
                  /\ refs'[code].allowance = refs[code].allowance - 1
            /\ last'.res.err = "none" => refs[code].allowance >= 1

C1_SequentialAllowance == [](C1_Inv) /\ [][C1_Step]_vars

\* the N+1-th call on a code of allowance N >= 1: N signups, then Teapot
C1_Witness ==
    /\ last.op = "addAccount" /\ last.res.err = "Teapot"
    /\ ~faulted
    /\ issued[last.arg.refCode] = MaxAllowance
    /\ signups[last.arg.refCode] = issued[last.arg.refCode]
    /\ refs[last.arg.refCode].allowance = 0

\* C2 (as stated): while the allowance of the global code '00000000' is < 1,
\* no addAccount call creates an account, whatever referral code it passes.
C2_AsStated ==
    [][(AddStep /\ refs[globalRef].allowance < 1) =>
          (last'.res.err # "none" /\ accounts' = accounts)]_vars

\* C3 (as stated): a valid addAccount (UUID id, valid email, passing captcha,
\* referral allowance >= 1, UUID-bound) stores the account with the reserved
\* proxy and the referral's account, takes the proxy from the pool, lowers the
\* allowance by one and sends the create-confirmation receipt once; an
\* addAccount with the id of a stored account fails with Conflict and changes
\* nothing.
C3_AsStated ==
    [][(AddStep /\ last'.arg.fault = "none") =>
          /\ (AddReaches /\ AddBound /\ AddFresh
                /\ refs[last'.arg.refCode].allowance >= 1) => last'.res.err = "none"
          /\ (uuidRegex(last'.arg.accountId) /\ emailRegex(last'.arg.email)
                /\ refRegex(last'.arg.refCode) /\ last'.arg.recapOk
                /\ refs[last'.arg.refCode].exists /\ AddBound
                /\ accounts[last'.arg.accountId].exists) =>
                (last'.res.err = "Conflict" /\ AddNoEffect)]_vars

\* C3 (amended): a valid addAccount succeeds with the effects above; an
\* addAccount with the id of a stored account never succeeds and changes
\* nothing; it fails with Conflict when it reaches the conflict check (the
\* captcha passes, a proxy is available, its referral code still has allowance
\* >= 1 and a UUID account) and with Teapot when that allowance is used up.
C3_Step ==
    (AddStep /\ last'.arg.fault = "none") =>
        LET id == last'.arg.accountId
            code == last'.arg.refCode
            receipt == createConf(id, now)
        IN  /\ (AddReaches /\ AddBound /\ AddFresh /\ refs[code].allowance >= 1) =>
                  /\ last'.res.err = "none"
                  /\ accounts'[id].exists
                  /\ accounts'[id].proxyAddr \in proxies
                  /\ proxies' = proxies \ {accounts'[id].proxyAddr}
                  /\ accounts'[id].referral = refs[code].account.items[1]
                  /\ accounts'[id].pendingEmail = toLowerCase(last'.arg.email)
                  /\ \A a \in UuidIds \ {id} : accounts'[a] = accounts[a]
                  /\ refs'[code].allowance = refs[code].allowance - 1
                  /\ \A c \in AllCodes \ {code} : refs'[c] = refs[c]
                  /\ last'.fx.confirm = <<receipt>>
                  /\ mail' = mail \cup {receipt}
            /\ (uuidRegex(id) /\ accounts[id].exists) =>
                  /\ last'.res.err # "none"
                  /\ AddNoEffect
                  /\ (AddReaches /\ AddBound /\ refs[code].allowance >= 1) =>
                        last'.res.err = "Conflict"
                  /\ (AddReaches /\ refs[code].allowance < 1) =>
                        last'.res.err = "Teapot"

C3_SignupThenConflict == [][C3_Step]_vars

\* the repeated signup: the account is stored and the call got Conflict
C3_Witness ==
    /\ last.op = "addAccount" /\ last.res.err = "Conflict"
    /\ accounts[last.arg.accountId].exists
    /\ accounts[last.arg.accountId].pendingEmail = toLowerCase(last.arg.email)

\* C10: getRef on a well-formed stored code: EnhanceYourCalm when the global
\* allowance is < 1, even if the named code is used up too; otherwise Teapot
\* when the named allowance is < 1; otherwise {defaultRef: the global account}
\* when that account is a UUID and an empty object when it is not.  For the
\* sentinel code itself the named allowance counts as 1: never Teapot.
C10_GetRefOutcome ==
    (/\ last.op = "getRef"
     /\ refRegex(last.arg.refCode)
     /\ refs[last.arg.refCode].exists /\ refs[globalRef].exists) =>
        LET code == last.arg.refCode
            glob == refs[globalRef]
            named == IF code = globalRef THEN 1 ELSE refs[code].allowance
        IN  /\ glob.allowance < 1 => last.res.err = "EnhanceYourCalm"
            /\ (glob.allowance >= 1 /\ named < 1) => last.res.err = "Teapot"
            /\ (glob.allowance >= 1 /\ named >= 1) =>
                  /\ last.res.err = "none"
                  /\ uuidRegexTest(glob.account) =>
                        (last.ret.hasDefault /\ last.ret.defaultRef = glob.account)
                  /\ ~uuidRegexTest(glob.account) => ~last.ret.hasDefault
            /\ code = globalRef => last.res.err # "Teapot"

\* global and named code both used up: EnhanceYourCalm
C10_Witness ==
    /\ last.op = "getRef" /\ last.arg.refCode = CodeA
    /\ refs[globalRef].allowance < 1 /\ refs[CodeA].allowance < 1
    /\ last.res.err = "EnhanceYourCalm"

----------------------------------------------------------------------------
\* Properties of the wallet lifecycle (SpecWallet).

\* the receipt of the call passes checkSession for the given type
ValidReceipt(r, type) ==
    checkSession(r, SessionAddr, type, SessionTimeoutHours, now).err = "none"
\* the wallet string parses and holds a valid address
ValidWallet(w) == w.json /\ w.address \in ValidAddrs

\* C5: setWallet succeeds only on an account with no wallet and otherwise
\* fails with Conflict leaving the stored wallet; resetWallet succeeds only on
\* an account that has a wallet and otherwise fails with Conflict; setWallet
\* attaches a wallet at most once, and an account that has a wallet never
\* returns to having none.
C5_Step ==
    /\ last'.op = "setWallet" =>
          LET r == last'.arg.sessionReceipt
              w == last'.arg.walletStr
          IN  /\ last'.res.err = "none" =>
                    /\ ValidReceipt(r, CREATE_CONF) /\ ValidWallet(w)
                    /\ accounts[r.accountId].exists
                    /\ accounts[r.accountId].wallet = NoWallet
                    /\ accounts'[r.accountId].wallet = w
              /\ (ValidReceipt(r, CREATE_CONF) /\ ValidWallet(w)
                    /\ accounts[r.accountId].exists) =>
                    /\ accounts[r.accountId].wallet # NoWallet =>
                          (last'.res.err = "Conflict" /\ accounts' = accounts)
                    /\ (accounts[r.accountId].wallet = NoWallet
                          /\ last'.arg.fault = "none") => last'.res.err = "none"
              /\ \A a \in UuidIds :
                    accounts'[a].wallet # accounts[a].wallet =>
                        accounts[a].wallet = NoWallet
    /\ last'.op = "resetWallet" =>
          LET r == last'.arg.sessionReceipt
              w == last'.arg.walletStr
          IN  /\ last'.res.err = "none" =>
                    /\ ValidReceipt(r, RESET_CONF) /\ ValidWallet(w)
                    /\ accounts[r.accountId].wallet # NoWallet
                    /\ accounts'[r.accountId].wallet = w
              /\ (ValidReceipt(r, RESET_CONF) /\ ValidWallet(w)
                    /\ accounts[r.accountId].exists
                    /\ accounts[r.accountId].wallet = NoWallet) =>
                    (last'.res.err = "Conflict" /\ accounts' = accounts)
    /\ \A a \in UuidIds :
          accounts[a].wallet # NoWallet => accounts'[a].wallet # NoWallet

C5_WalletLifecycle == [][C5_Step]_vars

\* no-wallet -> wallet-set -> wallet-reset has been run through
C5_Witness ==
    /\ last.op = "resetWallet" /\ last.res.err = "none"
    /\ accounts[last.arg.sessionReceipt.accountId].wallet = last.arg.walletStr

\* C8 (as stated): resendEmail rejects with Unauthorized ('too fresh') every
\* correctly signed create-confirmation receipt created less than 2 hours
\* before the call and accepts only receipts older than 2 hours.
C8_AsStated ==
    (/\ last.op = "resendEmail"
     /\ last.arg.sessionReceipt.wellformed
     /\ last.arg.sessionReceipt.signer = SessionAddr
     /\ last.arg.sessionReceipt.type = CREATE_CONF) =>
        LET createdMs == last.arg.sessionReceipt.created * MsPerSecond
            cutoff == now - (0 - ResendTimeoutHours) * HourMs
        IN  /\ createdMs > cutoff =>
                  (last.res.err = "Unauthorized" /\ last.res.msg = "session is too fresh")
            /\ last.res.err = "none" => createdMs <= cutoff

----------------------------------------------------------------------------
\* Properties of concurrent signups (SpecConcurrent).

\* C4 (as stated): under any interleaving of concurrent addAccount calls on
\* one referral code, the signups made with the code never exceed its initial
\* allowance, and once all calls have ended the stored allowance is the
\* initial allowance minus the number of successful signups.
C4_AsStated ==
    \A c \in AllCodes :
        /\ signups[c] <= issued[c]
        /\ (\A p \in DOMAIN calls : calls[p].pc \in {"idle", "done"}) =>
              refs[c].allowance = issued[c] - signups[c]

----------------------------------------------------------------------------
\* Frame of getRef (Spec).

\* C11: getRef is read-only: whatever its input and outcome (success,
\* BadRequest, EnhanceYourCalm, Teapot) it leaves the account table, every
\* referral, the proxy pool, the mail sent and everything else the other
\* operations read unchanged, and sends nothing.
C11_Step ==
    last'.op = "getRef" =>
        /\ UNCHANGED <<accounts, refs, proxies, mail, now, config>>
        /\ UNCHANGED <<issued, signups, faulted>>
        /\ last'.fx = NoFx

C11_GetRefReadOnly == [][C11_Step]_vars

\* a getRef made after a signup has used up the named code: Teapot
C11_Witness ==
    /\ last.op = "getRef" /\ last.res.err = "Teapot"
    /\ signups[last.arg.refCode] >= 1
    /\ refs[last.arg.refCode].allowance = 0

----------------------------------------------------------------------------
\* The persist step of addAccount (Spec).

\* C12 (as stated): when an addAccount call has ended, with success or with a
\* storage failure in putAccount, deleteProxy or setRefAllowance, either the
\* account row is stored, the reserved proxy is gone from the pool and the
\* referral allowance is one lower, or none of the three has happened.
C12_AsStated ==
    [][AddStep =>
          LET id == last'.arg.accountId
              code == last'.arg.refCode
              stored == accounts' # accounts
              removed == proxies' # proxies
              lowered == refs' # refs
          IN  \/ /\ stored /\ removed /\ lowered
                 /\ accounts'[id].exists
                 /\ accounts'[id].proxyAddr \in proxies \ proxies'
                 /\ refs'[code].allowance = refs[code].allowance - 1
              \/ ~stored /\ ~removed /\ ~lowered]_vars

----------------------------------------------------------------------------
\* Properties of the proxy pool (SpecPool).

\* C13: once addAccount has completed its persist step, a failure of
\* getAvailableProxiesCount or of sendAlert is swallowed: sendConfirm is still
\* invoked and the result of addAccount is the result of sendConfirm; the
\* count is read only when an alert hook and a threshold are configured, and
\* an alert is sent only when, besides, the count is below the threshold.
C13_Step ==
    (AddStep /\ accounts' # accounts /\ last'.arg.fault \notin PersistFaults) =>
        LET fault == last'.arg.fault
            called == last'.fx.called
            receipt == createConf(last'.arg.accountId, now)
            configured == config.slackAlert /\ config.minProxiesAlertThreshold # 0
            short == Cardinality(proxies') < config.minProxiesAlertThreshold
        IN  /\ "sendConfirm" \in called
            /\ last'.res.err = (IF fault = "sendConfirm" THEN "EmailError" ELSE "none")
            /\ last'.fx.confirm = (IF fault = "sendConfirm" THEN <<>> ELSE <<receipt>>)
            /\ "getAvailableProxiesCount" \in called <=> configured
            /\ "sendAlert" \in called <=>
                  (configured /\ short /\ fault # "getAvailableProxiesCount")
            /\ last'.fx.alerts = 1 <=>
                  (configured /\ short
                     /\ fault \notin {"getAvailableProxiesCount", "sendAlert"})
            /\ last'.fx.alerts \in {0, 1}

C13_PoolCheckIsolated == [][C13_Step]_vars

\* a signup whose alert failed: the failure is swallowed, the email is sent
C13_Witness ==
    /\ last.op = "addAccount" /\ last.arg.fault = "sendAlert"
    /\ "sendAlert" \in last.fx.called
    /\ last.res.err = "none" /\ last.fx.confirm # <<>>
    /\ accounts[last.arg.accountId].exists

\* C14 (as stated): over any sequence of addAccount and setWallet calls, for
\* every proxy address a caller of setWallet supplies, no address is at once
\* available in the pool and the proxy address of an account, and no two
\* accounts hold the same pool address.
C14_AsStated ==
    ~faulted =>
        /\ \A a \in UuidIds : accounts[a].exists => accounts[a].proxyAddr \notin proxies
        /\ \A a, b \in UuidIds :
              (/\ a # b /\ accounts[a].exists /\ accounts[b].exists
               /\ accounts[a].proxyAddr \in PoolAddrs) =>
                  accounts[a].proxyAddr # accounts[b].proxyAddr

----------------------------------------------------------------------------
\* Properties of setWallet and resetWallet (SpecWallet).

\* C15 (as stated): every successful setWallet issues a referral code owned by
\* the session's account with allowance 3, and the code is exactly 8
\* hexadecimal digits, whatever value the random source produced.
C15_AsStated ==
    (last.op = "setWallet" /\ last.res.err = "none") =>
        LET refCode == toString16(last.arg.random)
        IN  /\ refs[refCode] =
                  Ref(Str(last.arg.sessionReceipt.accountId), NewRefAllowance)
            /\ refRegex(refCode)

\* C16: the WalletCreated notification is published only after the wallet and
\* referral-code writes have completed, and whether the publish succeeds or
\* fails, setWallet gives the caller the same result and the stored wallet,
\* proxy address and referral code stay committed.
C16_Step ==
    last'.op = "setWallet" =>
        LET r == last'.arg.sessionReceipt
            id == r.accountId
            w == last'.arg.walletStr
            fault == last'.arg.fault
            reaches == /\ ValidReceipt(r, CREATE_CONF) /\ ValidWallet(w)
                       /\ accounts[id].exists /\ accounts[id].wallet = NoWallet
        IN  /\ last'.fx.notified = 1 <=> (reaches /\ fault \notin WriteFaults)
            /\ last'.fx.notified \in {0, 1}
            /\ last'.fx.notified = 1 =>
                  /\ last'.res.err = "none"
                  /\ accounts'[id].wallet = w
                  /\ accounts'[id].proxyAddr =
                        (IF last'.arg.proxyAddr # "" THEN last'.arg.proxyAddr
                         ELSE accounts[id].proxyAddr)
                  /\ refs'[toString16(last'.arg.random)] = Ref(Str(id), NewRefAllowance)

C16_NotifyBestEffort == [][C16_Step]_vars

\* a setWallet whose publish failed: it succeeded and the wallet is stored
C16_Witness ==
    /\ last.op = "setWallet" /\ last.arg.fault = "publish"
    /\ last.fx.notified = 1 /\ last.res.err = "none"
    /\ accounts[last.arg.sessionReceipt.accountId].wallet = last.arg.walletStr

\* C17: resetWallet with a valid reset-confirmation receipt replaces the
\* stored wallet only when the address of the new wallet differs from the
\* address of the stored one; with an equal address it fails with Conflict
\* and the stored wallet stays; in every case the proxy address of every
\* account, the proxy pool and all referral codes are unchanged.
C17_Step ==
    last'.op = "resetWallet" =>
        LET r == last'.arg.sessionReceipt
            id == r.accountId
            w == last'.arg.walletStr
            valid == /\ ValidReceipt(r, RESET_CONF) /\ ValidWallet(w)
                     /\ accounts[id].exists /\ accounts[id].wallet # NoWallet
        IN  /\ UNCHANGED <<proxies, refs, mail>>
            /\ \A a \in UuidIds : accounts'[a].proxyAddr = accounts[a].proxyAddr
            /\ accounts' # accounts =>
                  /\ valid
                  /\ w.address # accounts[id].wallet.address
                  /\ last'.res.err = "none"
                  /\ accounts' = [accounts EXCEPT ![id].wallet = w]
            /\ (valid /\ w.address = accounts[id].wallet.address) =>
                  /\ last'.res.err = "Conflict"
                  /\ accounts' = accounts
            /\ (valid /\ w.address # accounts[id].wallet.address
                   /\ last'.arg.fault = "none") =>
                  /\ last'.res.err = "none"
                  /\ accounts'[id].wallet = w

C17_ResetWalletFrame == [][C17_Step]_vars

\* a reset to the stored address, in another keystore: Conflict, wallet kept
C17_Witness ==
    /\ last.op = "resetWallet" /\ last.res.err = "Conflict"
    /\ last.res.msg = "can not reset wallet with same address"
    /\ accounts[last.arg.sessionReceipt.accountId].wallet # last.arg.walletStr
    /\ accounts[last.arg.sessionReceipt.accountId].wallet.address =
          last.arg.walletStr.address

----------------------------------------------------------------------------
\* Failures of addAccount before the persist step (Spec).

\* C18: an addAccount call that fails before the persist step leaves storage
\* unchanged: on BadRequest for a malformed id, email or referral code no
\* collaborator is called; on a captcha failure no proxy is reserved; on
\* Teapot, on BadRequest for a code not bound to a UUID account, and on
\* Conflict, no account row is written, no proxy leaves the pool, the referral
\* allowance is unchanged and no confirmation email is sent.
C18_Step ==
    AddStep =>
        LET id == last'.arg.accountId
            email == last'.arg.email
            code == last'.arg.refCode
            called == last'.fx.called
            err == last'.res.err
            shapeOk == uuidRegex(id) /\ emailRegex(email) /\ refRegex(code)
            noWrite == called \cap {"putAccount", "deleteProxy", "setRefAllowance",
                                    "sendConfirm", "sendAlert"} = {}
        IN  /\ ~shapeOk => (err = "BadRequest" /\ called = {} /\ AddNoEffect)
            /\ (shapeOk /\ refs[code].exists /\ ~last'.arg.recapOk) =>
                  (err = "Captcha" /\ "getProxy" \notin called /\ noWrite /\ AddNoEffect)
            /\ (AddReaches /\ refs[code].allowance < 1) =>
                  (err = "Teapot" /\ noWrite /\ AddNoEffect)
            /\ (AddReaches /\ refs[code].allowance >= 1 /\ ~AddBound) =>
                  (err = "BadRequest" /\ noWrite /\ AddNoEffect)
            /\ (AddReaches /\ refs[code].allowance >= 1 /\ AddBound /\ ~AddFresh) =>
                  (err = "Conflict" /\ noWrite /\ AddNoEffect)
            /\ err \in {"BadRequest", "Captcha", "Teapot", "Conflict"} =>
                  (noWrite /\ AddNoEffect)

C18_FailureBeforePersist == [][C18_Step]_vars

\* a signup with a code bound to no UUID account: the proxy was looked up,
\* the call failed with BadRequest and the pool is whole
C18_Witness ==
    /\ last.op = "addAccount" /\ last.res.err = "BadRequest"
    /\ last.fx.called = {"getRef", "verify", "getProxy"}
    /\ refs[last.arg.refCode].allowance >= 1
    /\ proxies = PoolAddrs
    /\ \A a \in UuidIds : ~accounts[a].exists

\* C19 (as stated): the email checked for a collision is the normalised
\* email that is stored, so that after any sequence of addAccount calls no two
\* stored accounts have emails that are equal after lowercasing.
C19_AsStated ==
    ~faulted =>
        \A a, b \in UuidIds :
            (a # b /\ accounts[a].exists /\ accounts[b].exists) =>
                toLowerCase(accounts[a].pendingEmail) # toLowerCase(accounts[b].pendingEmail)

----------------------------------------------------------------------------
\* Properties of resetRequest (SpecWallet).

\* C20 (as stated): resetRequest gives the caller the same result whether or
\* not an account exists for the email: it resolves with no data; and when the
\* captcha fails no reset receipt is issued or mailed.
C20_AsStated ==
    last.op = "resetRequest" =>
        /\ last.res.err = "none"
        /\ last.ret = NoRet
        /\ ~last.arg.recapOk => last.fx.reset = <<>>

====
